---- MODULE Spec2Model ----
(***************************************************************************)
(* Model of the camera application: the component of src/App.tsx ("App"),  *)
(* the second component variant kept in src/services/geminiService.ts      *)
(* ("App2", lines 51-412) and the analysis bridge of the same file         *)
(* (analyzeFrame, analyzeTopology).                                        *)
(*                                                                         *)
(* A handler and the effects React re-runs because of it are one step.     *)
(* The refs videoRef/canvasRef point at their elements while the component *)
(* is mounted, the effect cleanups of the unmount included, and are null   *)
(* afterwards.                                                             *)
(***************************************************************************)
EXTENDS Integers, Sequences, FiniteSets, TLC

VARIABLES
    variant,            \* which component is mounted: "App" or "App2"
    mounted,            \* the component is mounted (refs attached)
    cameraError,        \* cameraError (App) / error (App2): NoError or a message
    cameraReady,        \* App2: cameraReady
    inits,              \* manual initCamera invocations so far (names the invocation)
    requests,           \* getUserMedia promises in flight: [inv, attempt]
    trackStops,         \* acquired stream -> stop() calls its video track received
    srcObject,          \* videoRef.current.srcObject: a stream or NoStream
    onloadedmetadata,   \* handler installed on the video element
    metadataPending,    \* loadedmetadata not yet fired for srcObject
    readyState4,        \* video.readyState === 4
    videoSize,          \* <<videoWidth, videoHeight>>
    canvasSize,         \* <<canvas.width, canvas.height>>
    settings,           \* settings state
    mode,               \* mode state
    uiChanges,          \* settings and mode changes so far
    lastWrite,          \* the arguments of the last updateSetting call
    rafQueue,           \* pending animation-frame callbacks: [id, mode, settings]
    requestRef,         \* requestRef.current: a handle, or 0
    histogramData,      \* histogramData state
    lastCycle,          \* the last processFrame cycle run since the last re-render
    calls,              \* analysis calls awaited by takePhoto / start3DScanAnalysis
    issued,             \* analysis calls issued so far (names the call)
    analysis,           \* analysis state: Null or a scene result
    scanResult,         \* scanResult state: Null or a topology result
    isBusy,             \* isBusy state
    capturedPhotos,     \* capturedPhotos state, newest first
    settled,            \* the calls that have settled: [id, kind]
    lastSettled         \* kind -> the call of that kind that settled last

camVars  == <<cameraError, cameraReady, inits, requests, trackStops, srcObject,
              onloadedmetadata, metadataPending, readyState4, videoSize>>
loopVars == <<canvasSize, rafQueue, requestRef, histogramData, lastCycle>>
uiVars   == <<settings, mode, uiChanges, lastWrite>>
bridgeVars == <<calls, issued, analysis, scanResult, isBusy, capturedPhotos,
                settled, lastSettled>>
vars     == <<variant, mounted, camVars, loopVars, uiVars, bridgeVars>>

----------------------------------------------------------------------------
(* Bounds of the model *)

\* user actions in one behaviour: manual initCamera invocations (retry /
\* re-initialise clicks) plus settings and mode changes
MaxUserActions == 2
\* analysis calls issued in one behaviour
MaxCalls == 2
\* captures taken in one behaviour of the photo strip specification
MaxCaptures == 6

----------------------------------------------------------------------------
(* Constants of the program *)

Variants == {"App", "App2"}

NoError  == "null"
NoStream == -1

HistogramLength == 24

\* the native resolutions a stream may deliver (they share their width)
Resolutions == {<<1920, 1080>>, <<1920, 1440>>}
NoSize      == <<0, 0>>

\* App: <canvas width={1920} height={1080}>; App2: no attributes (300 x 150)
DefaultCanvas(v) == IF v = "App" THEN <<1920, 1080>> ELSE <<300, 150>>

Modes(v) == IF v = "App" THEN {"camera", "scan", "relief"}
                         ELSE {"cinema", "topography", "relief"}

InitialMode(v) == IF v = "App" THEN "camera" ELSE "cinema"

INITIAL_SETTINGS(v) ==
    IF v = "App"
    THEN [exposure |-> 0, brightness |-> 100, contrast |-> 100, saturation |-> 100,
          iso |-> 800, shutterSpeed |-> "1/48", whiteBalance |-> 5600,
          stabilization |-> TRUE, upscale |-> TRUE, hdr |-> TRUE,
          bokeh |-> 0, glow |-> 10, lut |-> "none"]
    ELSE [exposure |-> 0, brightness |-> 100, contrast |-> 110, saturation |-> 105,
          iso |-> 400, shutterSpeed |-> "1/50", whiteBalance |-> 5600,
          stabilization |-> TRUE, upscale |-> TRUE, hdr |-> TRUE,
          bokeh |-> 0, glow |-> 15, lut |-> "none"]

InitialHistogram(v) == [i \in 1..HistogramLength |-> IF v = "App" THEN 20 ELSE 10]

\* the <<key, value>> pairs the controls write in the lifecycle specification
SettingInputs(v) ==
    IF v = "App" THEN {<<"lut", "vintage">>} ELSE {<<"glow", 0>>}

\* Math.random() is drawn in fifths: the draw k stands for r = k / 5
RandomUnits == 5

\* the draws of Math.random for one histogram refresh in the lifecycle
\* specification, one per value to replace
RandomDraws == {[i \in 1..HistogramLength |-> i % RandomUnits]}

\* the video frames in the lifecycle specification
LifecycleFrames == {"white"}

\* the context state a cycle starts from: ctx.filter = 'none',
\* ctx.globalCompositeOperation = 'source-over'; globalAlpha is 1.0
ResetContext == [filter |-> <<>>, composite |-> "source-over", alpha |-> <<1, 1>>]

\* lastCycle before any cycle; stale: the cycle drew on a canvas whose size
\* differed from the video's
NoCycle == [kind |-> "none", pipeline |-> "none", stale |-> FALSE, scheduled |-> 1,
            settings |-> <<>>, ops |-> <<>>, ctx |-> ResetContext,
            frame |-> "none", offsets |-> {}]

\* lastWrite before any updateSetting call
NoWrite == [key |-> "none", value |-> 0]

----------------------------------------------------------------------------
(* Animation-frame scheduling *)

RafIds(q) == {cb.id : cb \in q}

\* requestAnimationFrame returns a handle no pending callback has.  Handles
\* are only ever compared with requestRef.current, which every call
\* overwrites with the handle returned, so the least free one stands for
\* the fresh one.
NewHandle(q) == CHOOSE n \in 1..(Cardinality(q) + 1) : n \notin RafIds(q)

\* requestAnimationFrame(processFrame) for the closure over (m, s)
RequestAnimationFrame(q, m, s) ==
    q \cup {[id |-> NewHandle(q), mode |-> m, settings |-> s]}

\* cancelAnimationFrame(h)
CancelAnimationFrame(q, h) == {cb \in q : cb.id # h}

----------------------------------------------------------------------------
(* The animation-loop effect: useEffect(..., [processFrame]) of App,       *)
(* useEffect(..., [cameraReady, processFrame]) of App2.                    *)

\* the cleanup the effect returns: App cancels requestRef.current, App2
\* returns no cleanup
LoopEffectCleanup(v, q, ref) ==
    IF v = "App" /\ ref # 0 THEN CancelAnimationFrame(q, ref) ELSE q

\* the effect body: App always schedules, App2 only once cameraReady
LoopEffectSchedules(v, ready) == v = "App" \/ ready

\* a re-run of the effect after a render that changed a dependency: the
\* previous run's cleanup, then the body with the new processFrame
RunLoopEffect(v, q, ref, ready, m, s) ==
    LET q1 == LoopEffectCleanup(v, q, ref)
    IN  IF LoopEffectSchedules(v, ready)
        THEN [queue |-> RequestAnimationFrame(q1, m, s), ref |-> NewHandle(q1)]
        ELSE [queue |-> q1, ref |-> ref]

----------------------------------------------------------------------------
(* Camera acquisition *)

\* a catch block that leaves the error state alone
ErrorLeftUnset(v) == NoError

ErrorMessage(v) ==
    IF v = "App" THEN "Could not access rear camera."
                 ELSE "REAR CAMERA NOT ACCESSIBLE. CHECK PERMISSIONS."

\* the handler initCamera installs with the stream of the given attempt
MetadataHandler(v, attempt) ==
    IF v = "App2" THEN "readyPlay"
    ELSE IF attempt = "first" THEN "resizePlay" ELSE "play"

\* App falls back to a reduced-constraint request once; App2 does not
HasFallback(v, attempt) == v = "App" /\ attempt = "first"

\* the retry control is rendered (App: inside the error overlay; App2: in
\* the footer, which the error overlay covers)
RetryOffered(v, err) == IF v = "App" THEN err # NoError ELSE err = NoError

\* initCamera up to its first await: clear the error, issue the request
InitCamera ==
    /\ mounted
    /\ inits + uiChanges < MaxUserActions
    /\ RetryOffered(variant, cameraError)
    /\ inits' = inits + 1
    /\ cameraError' = NoError
    /\ requests' = requests \cup {[inv |-> inits + 1, attempt |-> "first"]}
    /\ UNCHANGED <<variant, mounted, cameraReady, trackStops, srcObject,
                   onloadedmetadata, metadataPending, readyState4, videoSize,
                   loopVars, uiVars, bridgeVars>>

\* videoRef.current.srcObject = stream; videoRef.current.onloadedmetadata = ...
AttachStream(r) ==
    IF mounted
    THEN /\ srcObject' = r.inv
         /\ onloadedmetadata' = MetadataHandler(variant, r.attempt)
         /\ metadataPending' = TRUE
         /\ readyState4' = FALSE
         /\ videoSize' = NoSize
    ELSE UNCHANGED <<srcObject, onloadedmetadata, metadataPending, readyState4,
                     videoSize>>

\* a getUserMedia promise settles and initCamera runs on to its next await
\* or to its end
GetUserMediaSettles(r, ok) ==
    /\ r \in requests
    /\ IF ok
       THEN /\ requests' = requests \ {r}
            /\ trackStops' = trackStops @@ (r.inv :> 0)
            /\ AttachStream(r)
            /\ UNCHANGED cameraError
       ELSE /\ IF HasFallback(variant, r.attempt)
               THEN /\ requests' = (requests \ {r})
                                     \cup {[inv |-> r.inv, attempt |-> "fallback"]}
                    /\ UNCHANGED cameraError
               ELSE /\ requests' = requests \ {r}
                    /\ cameraError' = IF mounted THEN ErrorMessage(variant)
                                                 ELSE cameraError
            /\ UNCHANGED <<trackStops, srcObject, onloadedmetadata,
                           metadataPending, readyState4, videoSize>>
    /\ UNCHANGED <<variant, mounted, cameraReady, inits, loopVars, uiVars, bridgeVars>>

\* the video element fires loadedmetadata for its stream and the installed
\* handler runs; App2's setCameraReady(true) re-runs the loop effect
LoadedMetadata(res) ==
    /\ mounted
    /\ srcObject # NoStream
    /\ metadataPending
    /\ metadataPending' = FALSE
    /\ videoSize' = res
    /\ canvasSize' = IF onloadedmetadata = "resizePlay" THEN res ELSE canvasSize
    /\ IF onloadedmetadata = "readyPlay" /\ ~cameraReady
       THEN LET e == RunLoopEffect(variant, rafQueue, requestRef, TRUE,
                                   mode, settings)
            IN  /\ cameraReady' = TRUE
                /\ rafQueue' = e.queue
                /\ requestRef' = e.ref
       ELSE UNCHANGED <<cameraReady, rafQueue, requestRef>>
    /\ UNCHANGED <<variant, mounted, cameraError, inits, requests, trackStops,
                   srcObject, onloadedmetadata, readyState4, histogramData,
                   lastCycle, uiVars, bridgeVars>>

\* play() has buffered enough: readyState becomes 4 (HAVE_ENOUGH_DATA)
CanPlay ==
    /\ mounted
    /\ srcObject # NoStream
    /\ ~metadataPending
    /\ ~readyState4
    /\ readyState4' = TRUE
    /\ UNCHANGED <<variant, mounted, cameraError, cameraReady, inits, requests,
                   trackStops, srcObject, onloadedmetadata, metadataPending,
                   videoSize, loopVars, uiVars, bridgeVars>>

\* the source changes its native resolution while streaming
ResolutionChange(res) ==
    /\ mounted
    /\ srcObject # NoStream
    /\ ~metadataPending
    /\ res # videoSize
    /\ videoSize' = res
    /\ UNCHANGED <<variant, mounted, cameraError, cameraReady, inits, requests,
                   trackStops, srcObject, onloadedmetadata, metadataPending,
                   readyState4, loopVars, uiVars, bridgeVars>>

----------------------------------------------------------------------------
(* The frame processor *)

\* videoRef.current && canvasRef.current && videoRef.current.readyState === 4
Prerequisites(refs, ready) == refs /\ ready

\* what one invocation does: "skip" (a prerequisite is missing), "noctx"
\* (getContext('2d') returned null) or "draw"
CycleKind(refs, ready, ctx) ==
    IF ~Prerequisites(refs, ready) THEN "skip"
    ELSE IF ~ctx THEN "noctx"
    ELSE "draw"

\* resize-on-change: App2 compares the widths and then sets both dimensions;
\* App has no such stage in processFrame
ResizeOnChange(v, canvas, video) ==
    IF v = "App2" /\ canvas[1] # video[1] THEN video ELSE canvas

\* a frame processor that schedules its successor only after drawing
ReschedulesAfterDraw(v, kind) == kind = "draw"

\* whether the invocation reaches a requestAnimationFrame(processFrame):
\* App's is the last statement; App2 returns early on a null context
Reschedules(v, kind) == v = "App" \/ kind # "noctx"

----------------------------------------------------------------------------
(* The drawing pipelines.  Amounts that the code computes as fractions are
   kept as pairs <<numerator, denominator>>. *)

\* one entry of a ctx.filter string: fn(num/den unit)
FilterFn(fn, num, den, unit) == [fn |-> fn, arg |-> <<num, den>>, unit |-> unit]

\* the divisor of settings.bokeh in the blur entry
BokehScale == 40

\* looks whose adjustments stack: vintage also gets the cine-teal entries
LutFiltersStacked(lut) ==
    (IF lut \in {"cine-teal", "vintage"}
     THEN <<FilterFn("hue-rotate", 180, 1, "deg"), FilterFn("saturate", 130, 1, "%")>>
     ELSE <<>>)
    \o
    (IF lut = "vintage"
     THEN <<FilterFn("sepia", 40, 1, "%"), FilterFn("contrast", 90, 1, "%"),
            FilterFn("brightness", 95, 1, "%")>>
     ELSE <<>>)

\* what the look appends to the filter string: two independent tests of
\* settings.lut
LutFilters(lut) ==
    (IF lut = "cine-teal"
     THEN <<FilterFn("hue-rotate", 180, 1, "deg"), FilterFn("saturate", 130, 1, "%")>>
     ELSE <<>>)
    \o
    (IF lut = "vintage"
     THEN <<FilterFn("sepia", 40, 1, "%"), FilterFn("contrast", 90, 1, "%"),
            FilterFn("brightness", 95, 1, "%")>>
     ELSE <<>>)

\* the filter string of the base grade
BaseFilters(v, s) ==
    IF v = "App"
    THEN <<FilterFn("brightness", s.brightness, 1, "%"),
           FilterFn("contrast", s.contrast, 1, "%"),
           FilterFn("saturate", s.saturation, 1, "%"),
           FilterFn("blur", s.bokeh, BokehScale, "px")>> \o LutFilters(s.lut)
    ELSE <<FilterFn("brightness", s.brightness, 1, "%"),
           FilterFn("contrast", s.contrast, 1, "%"),
           FilterFn("saturate", s.saturation, 1, "%")>>

\* a glow guard that lets strength 0 through
GlowAppliesFromZero(glow) == glow >= 0

\* if (settings.glow > 0)
GlowApplies(glow) == glow > 0

\* the divisor of settings.glow in App's glow opacity
GlowAlphaScale == 150

\* ctx.globalAlpha of the glow stage: settings.glow / 150 in App, 0.3 in App2
GlowAlpha(v, glow) == IF v = "App" THEN <<glow, GlowAlphaScale>> ELSE <<3, 10>>

\* ctx.filter of the glow stage: blur(glow * 0.8 px) brightness(140%) in App,
\* blur(glow px) brightness(120%) in App2
GlowFilters(v, glow) ==
    IF v = "App"
    THEN <<FilterFn("blur", glow * 8, 10, "px"), FilterFn("brightness", 140, 1, "%")>>
    ELSE <<FilterFn("blur", glow, 1, "px"), FilterFn("brightness", 120, 1, "%")>>

\* a canvas call, with the context state it is made under
DrawOp(op, src, ctx) ==
    [op |-> op, src |-> src, filter |-> ctx.filter, composite |-> ctx.composite,
     alpha |-> ctx.alpha]

\* the mode whose pipeline is the wireframe
WireframeMode(v) == IF v = "App" THEN "relief" ELSE "topography"

\* the modes whose pipeline has the base grade and the glow stage
GradedModes(v) == IF v = "App" THEN {"camera", "scan"} ELSE {"cinema"}

\* the glow stage: the calls it makes and the context state it leaves
GlowStage(v, s, ctx) ==
    IF GlowApplies(s.glow)
    THEN LET g == [filter |-> GlowFilters(v, s.glow), composite |-> "screen",
                   alpha |-> GlowAlpha(v, s.glow)]
         IN  [ops |-> <<DrawOp("drawImage", "canvas", g)>>,
              ctx |-> [g EXCEPT !.composite = "source-over", !.alpha = <<1, 1>>]]
    ELSE [ops |-> <<>>, ctx |-> ctx]

\* App2's upscale stage
UpscaleStage(s, ctx) ==
    IF s.upscale
    THEN LET u == [filter |-> <<FilterFn("contrast", 150, 1, "%"),
                                FilterFn("brightness", 100, 1, "%"),
                                FilterFn("blur", 1, 1, "px")>>,
                   composite |-> "overlay", alpha |-> <<2, 10>>]
         IN  [ops |-> <<DrawOp("drawImage", "canvas", u)>>,
              ctx |-> [u EXCEPT !.composite = "source-over", !.alpha = <<1, 1>>]]
    ELSE [ops |-> <<>>, ctx |-> ctx]

\* the base grade and the stages after it
GradedPipeline(v, m, s) ==
    LET base == [ResetContext EXCEPT !.filter = BaseFilters(v, s)]
        up   == IF v = "App2" THEN UpscaleStage(s, base)
                              ELSE [ops |-> <<>>, ctx |-> base]
        glow == GlowStage(v, s, up.ctx)
        grid == IF v = "App" /\ m = "scan"
                THEN <<DrawOp("stroke", "grid", glow.ctx),
                       DrawOp("fillRect", "points", glow.ctx)>>
                ELSE <<>>
    IN  [ops |-> <<DrawOp("drawImage", "video", base)>> \o up.ops \o glow.ops \o grid,
         ctx |-> glow.ctx]

\* the wireframe: the frame is drawn, read back, painted over and the lines
\* are stroked
WireframePipeline(v) ==
    [ops |-> (IF v = "App2" THEN <<DrawOp("fillRect", "background", ResetContext)>>
                            ELSE <<>>)
             \o <<DrawOp("drawImage", "video", ResetContext),
                  DrawOp("getImageData", "canvas", ResetContext),
                  DrawOp("fillRect", "background", ResetContext),
                  DrawOp("stroke", "wireframe", ResetContext)>>,
     ctx |-> ResetContext]

\* App2's relief mode
ReliefPipeline ==
    LET gray == [ResetContext EXCEPT
                     !.filter = <<FilterFn("grayscale", 100, 1, "%"),
                                  FilterFn("contrast", 200, 1, "%")>>,
                     !.alpha = <<5, 10>>]
        diff == [ResetContext EXCEPT !.composite = "difference"]
    IN  [ops |-> <<DrawOp("drawImage", "video", ResetContext),
                   DrawOp("drawImage", "canvas", gray),
                   DrawOp("fillRect", "tint", diff)>>,
         ctx |-> ResetContext]

\* the calls one drawing cycle makes for mode m and settings s, and the
\* context state it leaves
Pipeline(v, m, s) ==
    IF m = WireframeMode(v) THEN WireframePipeline(v)
    ELSE IF m \in GradedModes(v) THEN GradedPipeline(v, m, s)
    ELSE ReliefPipeline

\* the contents a video frame may have
Frames == {"black", "white", "red", "split"}

\* the pixel <<r, g, b>> of the frame at column x when it is drawn w wide
FramePixel(frame, x, w) ==
    CASE frame = "black" -> <<0, 0, 0>>
      [] frame = "white" -> <<255, 255, 255>>
      [] frame = "red"   -> <<255, 0, 0>>
      [] OTHER           -> IF 2 * x < w THEN <<0, 0, 0>> ELSE <<255, 255, 255>>

\* the rectangle the wireframe reads back and walks: the canvas in App, the
\* video's dimensions in App2
ReadBack(v, canvas, video) == IF v = "App" THEN canvas ELSE video

\* data[idx], data[idx+1], data[idx+2] of getImageData at (x, y): the frame
\* as drawImage scaled it; outside the canvas the pixels are transparent black
ImageData(v, frame, canvas, video, x, y) ==
    IF x < canvas[1] /\ y < canvas[2]
    THEN FramePixel(frame, x, ReadBack(v, canvas, video)[1])
    ELSE <<0, 0, 0>>

\* const step
WireStep(v) == IF v = "App" THEN 20 ELSE 25

\* the factor of (brightness / 255): -40 in App, -50 in App2
WireScale(v) == IF v = "App" THEN -40 ELSE -50

\* brightness = (r + g + b) / 3; offset = (brightness / 255) * scale
WireOffset(v, px) == <<(px[1] + px[2] + px[3]) * WireScale(v), 3 * 255>>

\* the values a loop "for (let i = 0; i < limit; i += step)" visits
Strides(limit, step) == {i * step : i \in 0..((limit - 1) \div step)}

\* the columns the inner loop visits
SampleColumns(v, canvas, video) == Strides(ReadBack(v, canvas, video)[1], WireStep(v))

\* the first and the last value such a loop visits
Ends(limit, step) == {0, ((limit - 1) \div step) * step}

\* ImageData depends on y only through y < canvas[2]: the first and the last
\* row visited read every pixel value that any row between them reads
EdgeRows(v, canvas, video) == Ends(ReadBack(v, canvas, video)[2], WireStep(v))

\* the pixel values one wireframe cycle reads
PixelsRead(v, frame, canvas, video) ==
    {ImageData(v, frame, canvas, video, x, y) :
        x \in SampleColumns(v, canvas, video),
        y \in EdgeRows(v, canvas, video)}

\* the pixel values one wireframe cycle reads, each with the offset it gives
WireOffsets(v, frame, canvas, video) ==
    {[px |-> px, offset |-> WireOffset(v, px)] :
        px \in PixelsRead(v, frame, canvas, video)}

\* the fixed display range of the histogram: 5 + Math.random() * range
HistogramRange(v) == IF v = "App" THEN 95 ELSE 90

\* 5 + Math.random() * range for the draw k / RandomUnits
Sample(v, k) == 5 + (k * HistogramRange(v)) \div RandomUnits

\* a refresh that pushes one new sample onto the series
ResampleAppending(v, prev, draws) == Append(prev, Sample(v, draws[1]))

\* prev.map(() => 5 + Math.random() * range)
Resample(v, prev, draws) == [i \in 1..Len(prev) |-> Sample(v, draws[i])]

\* the browser runs the pending callback cb, a processFrame closure, while the
\* video shows frame
ProcessFrame(cb, ctx, refresh, draws, frame) ==
    /\ cb \in rafQueue
    /\ LET kind   == CycleKind(mounted, readyState4, ctx)
           canvas == IF kind = "draw"
                     THEN ResizeOnChange(variant, canvasSize, videoSize)
                     ELSE canvasSize
           q0     == rafQueue \ {cb}
           again  == Reschedules(variant, kind)
           drawn  == Pipeline(variant, cb.mode, cb.settings)
           wire   == kind = "draw" /\ cb.mode = WireframeMode(variant)
       IN  /\ canvasSize' = canvas
           /\ lastCycle' = [kind |-> kind, pipeline |-> cb.mode,
                            stale |-> kind = "draw" /\ canvas # videoSize,
                            scheduled |-> IF again THEN 1 ELSE 0,
                            settings |-> cb.settings,
                            ops |-> IF kind = "draw" THEN drawn.ops ELSE <<>>,
                            ctx |-> IF kind = "draw" THEN drawn.ctx ELSE ResetContext,
                            frame |-> IF wire THEN frame ELSE "none",
                            offsets |-> IF wire
                                        THEN WireOffsets(variant, frame, canvas, videoSize)
                                        ELSE {}]
           /\ histogramData' = IF kind = "draw" /\ refresh
                               THEN Resample(variant, histogramData, draws)
                               ELSE histogramData
           /\ rafQueue' = IF again
                          THEN RequestAnimationFrame(q0, cb.mode, cb.settings)
                          ELSE q0
           /\ requestRef' = IF again THEN NewHandle(q0) ELSE requestRef
    /\ UNCHANGED <<variant, mounted, camVars, uiVars, bridgeVars>>

----------------------------------------------------------------------------
(* The UI controls *)

\* the sliders and look buttons are rendered (App hides them in scan mode)
SettingsPanelShown(v, m) == v = "App2" \/ m \in {"camera", "relief"}

\* an update that also switches the glow off
WithSettingResettingGlow(prev, key, value) == [prev EXCEPT ![key] = value, !.glow = 0]

\* setSettings(prev => ({ ...prev, [key]: value }))
WithSetting(prev, key, value) == [prev EXCEPT ![key] = value]

\* a re-render with a new processFrame: the loop effect re-runs
Rerender(m, s) ==
    LET e == RunLoopEffect(variant, rafQueue, requestRef, cameraReady, m, s)
    IN  /\ rafQueue' = e.queue
        /\ requestRef' = e.ref
        /\ lastCycle' = NoCycle
        /\ uiChanges' = uiChanges + 1
        /\ UNCHANGED <<variant, mounted, camVars, canvasSize, histogramData,
                       bridgeVars>>

\* a mode button: setMode(m)
SetMode(m) ==
    /\ mounted
    /\ inits + uiChanges < MaxUserActions
    /\ m \in Modes(variant)
    /\ m # mode
    /\ mode' = m
    /\ UNCHANGED <<settings, lastWrite>>
    /\ Rerender(m, settings)

\* updateSetting(key, value)
UpdateSetting(key, value) ==
    /\ mounted
    /\ inits + uiChanges < MaxUserActions
    /\ SettingsPanelShown(variant, mode)
    /\ settings' = WithSetting(settings, key, value)
    /\ lastWrite' = [key |-> key, value |-> value]
    /\ UNCHANGED mode
    /\ Rerender(mode, settings')

----------------------------------------------------------------------------
(* Teardown *)

\* stream.getTracks().forEach(track => track.stop()) on the attached stream
StopTracks(stops, src) ==
    IF src # NoStream THEN [stops EXCEPT ![src] = @ + 1] ELSE stops

\* the cleanups run at unmount cancel requestRef.current: App's loop effect
\* cleanup, App2's camera effect cleanup
TeardownCancel(q, ref) == IF ref # 0 THEN CancelAnimationFrame(q, ref) ELSE q

\* the component unmounts: every effect cleanup runs
Teardown ==
    /\ mounted
    /\ mounted' = FALSE
    /\ trackStops' = StopTracks(trackStops, srcObject)
    /\ rafQueue' = TeardownCancel(rafQueue, requestRef)
    /\ UNCHANGED <<variant, cameraError, cameraReady, inits, requests, srcObject,
                   onloadedmetadata, metadataPending, readyState4, videoSize,
                   canvasSize, requestRef, histogramData, lastCycle, uiVars,
                   bridgeVars>>

----------------------------------------------------------------------------
(* The analysis bridge: analyzeFrame and analyzeTopology *)

\* the null reference held by analysis / scanResult before any result
Null == [null |-> TRUE]

Kinds == {"scene", "topology"}

\* the object JSON.parse("{}") returns: no field at all
EmptyObject == [f \in {} |-> 0]

\* response.text when the response carries no text
Absent == "<undefined>"

SceneBody ==
    "{\"luminance\":72,\"colorTemp\":\"Warm\",\"detectedObjects\":[\"lamp\"],\"suggestions\":\"Lower the key light\"}"
TopologyBody ==
    "{\"vertices\":1200,\"topologyScore\":85,\"uvStatus\":\"Clean\",\"defects\":[\"hole\"],\"suggestedFix\":\"Rescan the base\"}"
PartialBody == "{\"uvStatus\":\"Clean\"}"
MalformedBody == "{\"vertices\":12"

\* what the transport call may deliver: a rejection, or a response whose
\* text is absent, empty, an empty object, a full or partial document, or
\* not JSON at all
Outcomes(kind) ==
    {[threw |-> TRUE, text |-> Absent]} \cup
    {[threw |-> FALSE, text |-> t] :
        t \in {Absent, "", "{}", PartialBody, MalformedBody,
               IF kind = "scene" THEN SceneBody ELSE TopologyBody}}

\* JSON.parse on the texts of the model: the value, or a SyntaxError
JsonParse(text) ==
    CASE text = "{}" -> [ok |-> TRUE, value |-> EmptyObject]
      [] text = SceneBody ->
            [ok |-> TRUE,
             value |-> [luminance |-> 72, colorTemp |-> "Warm",
                        detectedObjects |-> <<"lamp">>,
                        suggestions |-> "Lower the key light"]]
      [] text = TopologyBody ->
            [ok |-> TRUE,
             value |-> [vertices |-> 1200, topologyScore |-> 85,
                        uvStatus |-> "Clean", defects |-> <<"hole">>,
                        suggestedFix |-> "Rescan the base"]]
      [] text = PartialBody -> [ok |-> TRUE, value |-> [uvStatus |-> "Clean"]]
      [] OTHER -> [ok |-> FALSE, value |-> Null]

\* response.text || "{}"
ResponseText(text) == IF text = Absent \/ text = "" THEN "{}" ELSE text

\* the object literal of the catch clause
DefaultResult(kind) ==
    IF kind = "scene"
    THEN [luminance |-> 50, colorTemp |-> "Neutral", detectedObjects |-> <<>>,
          suggestions |-> "Awaiting input"]
    ELSE [vertices |-> 0, topologyScore |-> 0, uvStatus |-> "Error",
          defects |-> <<>>, suggestedFix |-> "Reposition for better lighting"]

\* the failure escapes the function instead of being caught
OnErrorRethrown(kind) == [state |-> "rejected", value |-> Null]

\* catch (e) { return <default>; }
OnError(kind) == [state |-> "fulfilled", value |-> DefaultResult(kind)]

\* the parsed document is completed with the defaults of its kind
AnalyzeMergingDefaults(kind, outcome) ==
    IF outcome.threw THEN OnError(kind)
    ELSE LET parsed == JsonParse(ResponseText(outcome.text))
         IN  IF parsed.ok
             THEN [state |-> "fulfilled",
                   value |-> parsed.value @@ DefaultResult(kind)]
             ELSE OnError(kind)

\* how the promise of analyzeFrame / analyzeTopology settles: the await and
\* the JSON.parse both sit inside the try block
Analyze(kind, outcome) ==
    IF outcome.threw THEN OnError(kind)
    ELSE LET parsed == JsonParse(ResponseText(outcome.text))
         IN  IF parsed.ok THEN [state |-> "fulfilled", value |-> parsed.value]
                          ELSE OnError(kind)

----------------------------------------------------------------------------
(* The capture and scan actions of App *)

\* [photo, ...prev].slice(0, 5)
PhotoStripLimit == 5

\* a strip that is never cut
PrependUncut(photo, prev) == <<photo>> \o prev

Prepend(photo, prev) ==
    SubSeq(<<photo>> \o prev, 1,
           IF Len(prev) + 1 < PhotoStripLimit THEN Len(prev) + 1
                                              ELSE PhotoStripLimit)

\* the capture button is rendered in camera and relief mode, the scan panel
\* in scan mode
CaptureShown(m) == m \in {"camera", "relief"}

\* the scan button is disabled while busy; the re-calibrate button is
\* rendered once a scan result is held and is never disabled
ScanOffered(m, busy, result) == m = "scan" /\ (~busy \/ result # Null)

\* the new result is merged into the one held
StoreResultMerged(prev, res) == IF prev = Null THEN res ELSE res @@ prev

\* setAnalysis(res) / setScanResult(res): the state is replaced
StoreResult(prev, res) == res

\* takePhoto up to its await, while fewer than limit calls have been issued
TakePhotoWithin(limit) ==
    /\ variant = "App"
    /\ mounted
    /\ CaptureShown(mode)
    /\ issued < limit
    /\ issued' = issued + 1
    /\ capturedPhotos' = Prepend(issued + 1, capturedPhotos)
    /\ isBusy' = TRUE
    /\ calls' = calls \cup {[id |-> issued + 1, kind |-> "scene"]}
    /\ UNCHANGED <<variant, mounted, camVars, loopVars, uiVars, analysis,
                   scanResult, settled, lastSettled>>

TakePhoto == TakePhotoWithin(MaxCalls)

\* start3DScanAnalysis up to its await
Start3DScanAnalysis ==
    /\ variant = "App"
    /\ mounted
    /\ ScanOffered(mode, isBusy, scanResult)
    /\ issued < MaxCalls
    /\ issued' = issued + 1
    /\ isBusy' = TRUE
    /\ calls' = calls \cup {[id |-> issued + 1, kind |-> "topology"]}
    /\ UNCHANGED <<variant, mounted, camVars, loopVars, uiVars, analysis,
                   scanResult, capturedPhotos, settled, lastSettled>>

\* the transport call of c settles with outcome; analyzeFrame /
\* analyzeTopology settles and the awaiting handler runs to its end
AnalysisSettles(c, outcome) ==
    /\ c \in calls
    /\ outcome \in Outcomes(c.kind)
    /\ LET r == Analyze(c.kind, outcome)
       IN  /\ calls' = calls \ {c}
           /\ settled' = settled \cup {c}
           /\ lastSettled' = [lastSettled EXCEPT ![c.kind] =
                                 [id |-> c.id, outcome |-> outcome, result |-> r]]
           /\ IF r.state = "fulfilled" /\ mounted
              THEN /\ analysis' = IF c.kind = "scene"
                                  THEN StoreResult(analysis, r.value) ELSE analysis
                   /\ scanResult' = IF c.kind = "topology"
                                    THEN StoreResult(scanResult, r.value)
                                    ELSE scanResult
                   /\ isBusy' = FALSE
              ELSE UNCHANGED <<analysis, scanResult, isBusy>>
    /\ UNCHANGED <<variant, mounted, camVars, loopVars, uiVars, issued,
                   capturedPhotos>>

\* lastSettled before any call of the kind has settled
NoneSettled == [id |-> 0, outcome |-> [threw |-> FALSE, text |-> Absent],
                result |-> [state |-> "none", value |-> Null]]

----------------------------------------------------------------------------
(* The component after its first render and its mount effects: initCamera  *)
(* has issued its first request and the loop effect has run once.          *)

Init ==
    /\ variant \in Variants
    /\ mounted = TRUE
    /\ cameraError = NoError
    /\ cameraReady = FALSE
    /\ inits = 0
    /\ requests = {[inv |-> 0, attempt |-> "first"]}
    /\ trackStops = [x \in {} |-> 0]
    /\ srcObject = NoStream
    /\ onloadedmetadata = "none"
    /\ metadataPending = FALSE
    /\ readyState4 = FALSE
    /\ videoSize = NoSize
    /\ canvasSize = DefaultCanvas(variant)
    /\ settings = INITIAL_SETTINGS(variant)
    /\ mode = InitialMode(variant)
    /\ uiChanges = 0
    /\ lastWrite = NoWrite
    /\ LET e == RunLoopEffect(variant, {}, 0, FALSE, InitialMode(variant),
                              INITIAL_SETTINGS(variant))
       IN  rafQueue = e.queue /\ requestRef = e.ref
    /\ histogramData = InitialHistogram(variant)
    /\ lastCycle = NoCycle
    /\ calls = {}
    /\ issued = 0
    /\ analysis = Null
    /\ scanResult = Null
    /\ isBusy = FALSE
    /\ capturedPhotos = <<>>
    /\ settled = {}
    /\ lastSettled = [k \in Kinds |-> NoneSettled]

Next ==
    \/ InitCamera
    \/ \E r \in requests, ok \in BOOLEAN : GetUserMediaSettles(r, ok)
    \/ \E res \in Resolutions : LoadedMetadata(res)
    \/ CanPlay
    \/ \E res \in Resolutions : ResolutionChange(res)
    \/ \E cb \in rafQueue, ctx \in BOOLEAN, refresh \in BOOLEAN,
          draws \in RandomDraws, frame \in LifecycleFrames :
            ProcessFrame(cb, ctx, refresh, draws, frame)
    \/ \E m \in Modes(variant) : SetMode(m)
    \/ \E kv \in SettingInputs(variant) : UpdateSetting(kv[1], kv[2])
    \/ Teardown

Spec == Init /\ [][Next]_vars

----------------------------------------------------------------------------
(* The analysis bridge under App: captures, scans and mode switches *)

InitBridge == Init /\ variant = "App"

NextBridge ==
    \/ TakePhoto
    \/ Start3DScanAnalysis
    \/ \E c \in calls : \E outcome \in Outcomes(c.kind) : AnalysisSettles(c, outcome)
    \/ \E m \in Modes(variant) : SetMode(m)

SpecBridge == InitBridge /\ [][NextBridge]_vars

----------------------------------------------------------------------------
(* Claims about teardown and the frame loop, checked under Spec *)

\* C1: teardown stops every active media track exactly once: in the step
\* that unmounts the component, the track of every stream acquired so far
\* ends with exactly one stop() received, so none is left running.
C1_TeardownStopsEveryTrackOnce ==
    [][(mounted /\ ~mounted') =>
          \A st \in DOMAIN trackStops : trackStops'[st] = 1]_vars

\* C2: teardown cancels the pending frame-processing cycle: once the
\* component is unmounted no processFrame callback is pending, so no cycle
\* can execute again.
C2_NoCallbackPendingAfterTeardown == ~mounted => rafQueue = {}

\* C3: the frame loop is self-perpetuating: every invocation of
\* processFrame, drawing or skipping, schedules exactly one successor.
C3_EveryCycleSchedulesOneSuccessor ==
    lastCycle.kind # "none" => lastCycle.scheduled = 1

\* C4: cycles are strictly sequential: at most one processFrame callback is
\* pending in every reachable state, settings and mode changes included.
C4_AtMostOnePendingCallback == Cardinality(rafQueue) <= 1

\* C5: switching display mode is immediate: a cycle that draws after the
\* mode was switched runs the pipeline of the currently selected mode.
C5_DrawsOnlySelectedModePipeline ==
    lastCycle.kind = "draw" => lastCycle.pipeline = mode

\* C6: the frame buffer tracks the source resolution: no cycle draws on a
\* canvas whose width or height differs from the video's native size.
C6_NoDrawAtStaleResolution == lastCycle.kind = "draw" => ~lastCycle.stale

----------------------------------------------------------------------------
(* Claims about the analysis bridge, checked under SpecBridge *)

\* the transport outcomes that are failures of the request/response cycle
IsFailure(outcome) == outcome.threw \/ outcome.text = MalformedBody

\* the transport outcomes that are successes with an empty document
IsEmptySuccess(outcome) ==
    ~outcome.threw /\ outcome.text \in {"{}", "", Absent}

\* C7: analyzeFrame and analyzeTopology never reject, and on a transport
\* failure or a malformed body they resolve with the fixed default of their
\* kind, the same for both failures.
C7_FailureResolvesWithDefault ==
    \A k \in Kinds :
        LET e == lastSettled[k]
        IN  e.id # 0 =>
              /\ e.result.state = "fulfilled"
              /\ IsFailure(e.outcome) =>
                    e.result.value =
                        IF k = "scene"
                        THEN [luminance |-> 50, colorTemp |-> "Neutral",
                              detectedObjects |-> <<>>,
                              suggestions |-> "Awaiting input"]
                        ELSE [vertices |-> 0, topologyScore |-> 0,
                              uvStatus |-> "Error", defects |-> <<>>,
                              suggestedFix |-> "Reposition for better lighting"]

\* reached: a scene call whose transport threw and a topology call whose
\* body was malformed have both settled
C7_Witness ==
    /\ lastSettled["scene"].id # 0
    /\ lastSettled["scene"].outcome.threw
    /\ lastSettled["topology"].id # 0
    /\ lastSettled["topology"].outcome.text = MalformedBody
    /\ scanResult # Null
    /\ analysis # Null

\* C8: after any analysis call has resolved, the result held in UI state has
\* every field the UI reads: vertices, topologyScore and defects of a
\* topology result, suggestions of a scene result.
C8_StoredResultRenderable ==
    /\ scanResult # Null =>
          {"vertices", "topologyScore", "defects"} \subseteq DOMAIN scanResult
    /\ analysis # Null => "suggestions" \in DOMAIN analysis

\* C9: on a transport success whose body is "{}" or whose text is empty or
\* absent, the call resolves with an object that has no field at all, which
\* differs from the transport-failure default.
C9_EmptySuccessHasNoFields ==
    \A k \in Kinds :
        LET e == lastSettled[k]
        IN  (e.id # 0 /\ IsEmptySuccess(e.outcome)) =>
              /\ e.result.state = "fulfilled"
              /\ DOMAIN e.result.value = {}
              /\ e.result.value # DefaultResult(k)

\* reached: a scene call has resolved on an empty text, a topology call on
\* the body "{}", and both values are held in UI state
C9_Witness ==
    /\ lastSettled["scene"].id # 0
    /\ lastSettled["scene"].outcome = [threw |-> FALSE, text |-> ""]
    /\ lastSettled["topology"].id # 0
    /\ lastSettled["topology"].outcome = [threw |-> FALSE, text |-> "{}"]
    /\ DOMAIN analysis = {}
    /\ DOMAIN scanResult = {}

\* the stored result of kind k
Stored(k) == IF k = "scene" THEN analysis ELSE scanResult

\* C10: last-write-wins by resolution order: the stored result of each kind
\* is, whole and unmerged, the value returned by the call of that kind that
\* resolved last (Null before any has), whatever the order of issue; a
\* resolution of the other kind does not change it.
C10_LastResolvedWins ==
    \A k \in Kinds :
        Stored(k) = IF lastSettled[k].id = 0 THEN Null
                    ELSE lastSettled[k].result.value

\* reached: two scene calls overlapped and the one issued first resolved
\* last, with a value other than the default, and is the one held
C10_Witness ==
    /\ \E c \in settled :
          c.kind = "scene" /\ c.id > lastSettled["scene"].id
    /\ lastSettled["scene"].id # 0
    /\ lastSettled["scene"].outcome.text = SceneBody
    /\ analysis = lastSettled["scene"].result.value


----------------------------------------------------------------------------
(* App as a whole: the camera, the frame loop, the controls and the
   analysis bridge together *)

\* the transport outcomes drawn here: a full body and a throw
AppOutcomes(kind) == {o \in Outcomes(kind) : o.threw \/ o.text \in {SceneBody, TopologyBody}}

NextApp ==
    \/ \E r \in requests, ok \in BOOLEAN : GetUserMediaSettles(r, ok)
    \/ \E res \in Resolutions : LoadedMetadata(res)
    \/ CanPlay
    \/ \E cb \in rafQueue, ctx \in BOOLEAN, refresh \in BOOLEAN,
          draws \in RandomDraws, frame \in LifecycleFrames :
            ProcessFrame(cb, ctx, refresh, draws, frame)
    \/ \E m \in Modes(variant) : SetMode(m)
    \/ \E kv \in SettingInputs(variant) : UpdateSetting(kv[1], kv[2])
    \/ Teardown
    \/ TakePhoto
    \/ Start3DScanAnalysis
    \/ \E c \in calls : \E outcome \in AppOutcomes(c.kind) : AnalysisSettles(c, outcome)

SpecApp == InitBridge /\ [][NextApp]_vars

----------------------------------------------------------------------------
(* Claims about camera acquisition, checked under Spec *)

\* in this step the request r settles as the failure of the last attempt of
\* its invocation: no stream is acquired for it and no request follows it
LastAttemptFails(r) ==
    /\ r \in requests
    /\ r \notin requests'
    /\ r.inv \notin DOMAIN trackStops'
    /\ \A q \in requests' : q.inv # r.inv

\* C12: acquisition has no automatic retry loop.  A request is issued only
\* as the preferred request of a new invocation triggered from the UI or as
\* the one fallback replacing the failed preferred request of the same
\* invocation; the error state becomes set exactly in the steps in which the
\* last attempt of an invocation fails, and is cleared only by a retried
\* invocation, which clears it as it issues its request.
C12_NoAutomaticRetry ==
    [][/\ \A q \in requests' \ requests :
             \/ q.attempt = "first" /\ inits' = inits + 1 /\ q.inv = inits'
             \/ /\ q.attempt = "fallback"
                /\ [inv |-> q.inv, attempt |-> "first"] \in requests \ requests'
                /\ q.inv \notin DOMAIN trackStops'
       /\ Cardinality(requests' \ requests) <= 1
       /\ (cameraError = NoError /\ cameraError' # NoError)
             => \E r \in requests : LastAttemptFails(r)
       /\ \A r \in requests : (LastAttemptFails(r) /\ mounted) => cameraError' # NoError
       /\ (cameraError # NoError /\ cameraError' = NoError) => inits' = inits + 1
       /\ inits' # inits
             => /\ cameraError' = NoError
                /\ requests' \ requests = {[inv |-> inits', attempt |-> "first"]}]_vars

\* App after a manual retry: the error was set and cleared, the retried
\* preferred request failed too and its one fallback is pending
C12_Witness ==
    /\ variant = "App"
    /\ inits = 1
    /\ cameraError = NoError
    /\ requests = {[inv |-> 1, attempt |-> "fallback"]}

----------------------------------------------------------------------------
(* The frame processor on a playing camera: the component once the stream
   of its mount-time request is attached and playing, with the mode and the
   settings the controls had been put to before that *)

Looks == {"none", "log-c", "cine-teal", "vintage"}

\* the resolutions the playing stream delivers here
FrameResolutions == {<<160, 120>>, <<160, 90>>}

\* the settings the controls have produced when the camera starts playing
FrameSettings(v) ==
    IF v = "App"
    THEN {[INITIAL_SETTINGS(v) EXCEPT !.glow = g, !.lut = l, !.bokeh = b] :
              g \in {0, 1, INITIAL_SETTINGS(v).glow, 100}, l \in Looks,
              b \in {0, 100}}
    ELSE {[INITIAL_SETTINGS(v) EXCEPT !.glow = g, !.upscale = u] :
              g \in {0, 1, INITIAL_SETTINGS(v).glow, 100}, u \in BOOLEAN}

\* the draws of Math.random for one histogram refresh: all least, all
\* greatest, mixed
FrameDraws ==
    {[i \in 1..HistogramLength |-> 0],
     [i \in 1..HistogramLength |-> RandomUnits - 1],
     [i \in 1..HistogramLength |-> i % RandomUnits]}

\* the frames that tell cycles of mode m apart: only the wireframe reads the
\* frame back
FramesRead(v, m) == IF m = WireframeMode(v) THEN Frames ELSE {"black"}

\* the draws that tell cycles apart: only a refresh uses them
DrawsUsed(refresh) ==
    IF refresh THEN FrameDraws ELSE {[i \in 1..HistogramLength |-> 0]}

InitFrame ==
    /\ variant \in Variants
    /\ mounted = TRUE
    /\ cameraError = NoError
    /\ cameraReady = (variant = "App2")
    /\ inits = 0
    /\ requests = {}
    /\ trackStops = (0 :> 0)
    /\ srcObject = 0
    /\ onloadedmetadata = MetadataHandler(variant, "first")
    /\ metadataPending = FALSE
    /\ readyState4 = TRUE
    /\ videoSize \in FrameResolutions
    /\ canvasSize = IF variant = "App" THEN videoSize ELSE DefaultCanvas(variant)
    /\ settings \in FrameSettings(variant)
    /\ mode \in Modes(variant)
    /\ uiChanges = 0
    /\ lastWrite = NoWrite
    /\ LET e == RunLoopEffect(variant, {}, 0, TRUE, mode, settings)
       IN  rafQueue = e.queue /\ requestRef = e.ref
    /\ histogramData = InitialHistogram(variant)
    /\ lastCycle = NoCycle
    /\ calls = {}
    /\ issued = 0
    /\ analysis = Null
    /\ scanResult = Null
    /\ isBusy = FALSE
    /\ capturedPhotos = <<>>
    /\ settled = {}
    /\ lastSettled = [k \in Kinds |-> NoneSettled]

NextFrame ==
    \/ \E cb \in rafQueue, ctx \in BOOLEAN, refresh \in BOOLEAN :
          \E draws \in DrawsUsed(refresh), frame \in FramesRead(variant, cb.mode) :
            ProcessFrame(cb, ctx, refresh, draws, frame)
    \/ \E res \in FrameResolutions : ResolutionChange(res)

SpecFrame == InitFrame /\ [][NextFrame]_vars

----------------------------------------------------------------------------
(* Claims about the drawing pipelines, checked under SpecFrame *)

\* the call of the last cycle that drew the video frame
VideoDraw == lastCycle.ops[CHOOSE i \in DOMAIN lastCycle.ops :
                               lastCycle.ops[i].src = "video"]

\* the calls of the last cycle that re-composite the canvas onto itself in
\* screen mode
GlowDraws ==
    {i \in DOMAIN lastCycle.ops : /\ lastCycle.ops[i].op = "drawImage"
                                  /\ lastCycle.ops[i].src = "canvas"
                                  /\ lastCycle.ops[i].composite = "screen"}

\* C13: glow strength 0 is a no-op: in any mode, a drawing cycle whose
\* settings have glow = 0 makes no glow re-composite draw and ends with the
\* blend mode and the opacity under which the video frame was drawn.
C13_GlowZeroIsNoOp ==
    (lastCycle.kind = "draw" /\ lastCycle.settings.glow = 0)
        => /\ GlowDraws = {}
           /\ lastCycle.ctx.composite = VideoDraw.composite
           /\ lastCycle.ctx.alpha = VideoDraw.alpha

\* App has drawn the scan pipeline with glow = 0: the base grade and the grid
C13_Witness ==
    /\ variant = "App"
    /\ lastCycle.kind = "draw"
    /\ lastCycle.pipeline = "scan"
    /\ lastCycle.settings.glow = 0
    /\ Len(lastCycle.ops) = 3

\* the sum of the three channels of a pixel
ChannelSum(px) == px[1] + px[2] + px[3]

\* the greatest upward displacement: 40 pixels in App, 50 in App2
MaxUpward == IF variant = "App" THEN 40 ELSE 50

\* C14: the wireframe's vertical offset at every sampled point is
\* proportional to the average of the three channels there: the offset is
\* MaxUpward upwards times the average over 255, so it is 0 wherever a
\* uniformly black frame is sampled and MaxUpward upwards wherever a
\* uniformly white frame is sampled.
C14_DisplacementProportional ==
    \A e \in lastCycle.offsets :
        /\ e.offset[1] * 3 * 255 = -(MaxUpward * ChannelSum(e.px) * e.offset[2])
        /\ lastCycle.frame = "black" => e.offset[1] = 0
        /\ lastCycle.frame = "white" => e.offset[1] = -(MaxUpward * e.offset[2])

\* the opacity of the glow re-composite at strength 1: the constant of
\* proportionality, if there is one
UnitGlowOpacity == GlowAlpha(variant, 1)

\* C15: for every glow strength g in 1..100 the glow re-composite is drawn
\* with an opacity of g times a fixed constant, which is therefore strictly
\* increasing in g, and never above 1; after the stage the opacity is 1 and
\* the blend mode source-over again.
C15_GlowOpacityProportional ==
    (/\ lastCycle.kind = "draw"
     /\ lastCycle.pipeline \in GradedModes(variant)
     /\ lastCycle.settings.glow \in 1..100)
        => /\ Cardinality(GlowDraws) = 1
           /\ \A i \in GlowDraws :
                 LET a == lastCycle.ops[i].alpha
                 IN  /\ a[1] * UnitGlowOpacity[2]
                           = lastCycle.settings.glow * UnitGlowOpacity[1] * a[2]
                     /\ a[1] <= a[2]
           /\ lastCycle.ctx.alpha = <<1, 1>>
           /\ lastCycle.ctx.composite = "source-over"

\* a filter chain without the entries that do nothing: blur(0px) is the
\* identity
Effective(chain) == SelectSeq(chain, LAMBDA f : ~(f.fn = "blur" /\ f.arg[1] = 0))

\* the function names of a chain, in order
Names(chain) == [i \in DOMAIN chain |-> chain[i].fn]

\* brightness, contrast, saturation and blur taken from the settings of the
\* last cycle, the blur being bokeh over the fixed scale
CoreChain ==
    LET s == lastCycle.settings
    IN  Effective(<<FilterFn("brightness", s.brightness, 1, "%"),
                    FilterFn("contrast", s.contrast, 1, "%"),
                    FilterFn("saturate", s.saturation, 1, "%"),
                    FilterFn("blur", s.bokeh, BokehScale, "px")>>)

\* what the base grade's chain has after the core
Appended ==
    SubSeq(Effective(VideoDraw.filter), Len(CoreChain) + 1,
           Len(Effective(VideoDraw.filter)))

----------------------------------------------------------------------------
(* Claims about the writers of the state, checked under SpecApp *)

\* C16: the controls are the sole writers of settings and mode.  A cycle of
\* the frame processor changes neither the settings, the mode nor an
\* analysis result; a field of settings changes only in a step of a control,
\* and then it is the field named in the updateSetting call and its new
\* value is the value given; the field last written holds the value given.
C16_ControlsAreSoleWriters ==
    /\ [](lastWrite.key # "none" => settings[lastWrite.key] = lastWrite.value)
    /\ [][/\ (lastCycle' # lastCycle /\ lastCycle'.kind # "none")
               => UNCHANGED <<settings, mode, analysis, scanResult>>
          /\ DOMAIN settings' = DOMAIN settings
          /\ \A f \in DOMAIN settings :
                settings'[f] # settings[f]
                    => /\ lastWrite' = [key |-> f, value |-> settings'[f]]
                       /\ uiChanges' = uiChanges + 1
          /\ mode' # mode => uiChanges' = uiChanges + 1]_vars

\* the look was set to vintage, a cycle has since drawn with it, and an
\* analysis result is held
C16_Witness ==
    /\ lastWrite = [key |-> "lut", value |-> "vintage"]
    /\ settings = [INITIAL_SETTINGS(variant) EXCEPT !.lut = "vintage"]
    /\ lastCycle.kind = "draw"
    /\ lastCycle.settings = settings
    /\ analysis # Null

----------------------------------------------------------------------------
(* Claims about the histogram, checked under Spec *)

\* C18: the histogram has exactly 24 values in every state, each inside the
\* display range from 5 up to 100; it changes only in a cycle that draws,
\* which leaves 24 values inside the range; a cycle that skips, for a missing
\* prerequisite or a missing context, leaves it unchanged.
C18_HistogramFixedLength ==
    /\ [](/\ Len(histogramData) = 24
          /\ \A i \in 1..24 : histogramData[i] >= 5 /\ histogramData[i] < 100)
    /\ [][/\ histogramData' # histogramData
               => /\ lastCycle'.kind = "draw"
                  /\ DOMAIN histogramData' = DOMAIN histogramData
          /\ (lastCycle' # lastCycle /\ lastCycle'.kind \in {"skip", "noctx"})
               => histogramData' = histogramData]_vars

\* the histogram has been refreshed and a later cycle has skipped
C18_Witness ==
    /\ histogramData # InitialHistogram(variant)
    /\ Len(histogramData) = 24
    /\ lastCycle.kind = "skip"

----------------------------------------------------------------------------
(* Claims about the busy flag, checked under SpecBridge *)

\* C19: the busy flag covers every outstanding analysis call: isBusy is true
\* while at least one analyzeFrame or analyzeTopology call has not resolved,
\* and false once all calls have resolved.
C19_BusyCoversOutstandingCalls == isBusy <=> calls # {}

----------------------------------------------------------------------------
(* Claims about the attached stream, checked under Spec *)

\* the streams whose track is running: acquired and never stopped
RunningStreams == {x \in DOMAIN trackStops : trackStops[x] = 0}

\* C20: at most one camera stream is live at any time: in a step in which
\* initCamera attaches a newly acquired stream to the video element, no
\* stream attached before it still has a running track, and while the
\* component is mounted at most one stream has a running track.
C20_AtMostOneLiveStream ==
    /\ [](mounted => Cardinality(RunningStreams) <= 1)
    /\ [][(srcObject' # srcObject /\ srcObject' # NoStream)
             => \A x \in DOMAIN trackStops : trackStops'[x] >= 1]_vars

\* C21: an acquisition still pending at teardown does not leak: in a step in
\* which a stream request resolves with a stream after the component has
\* been torn down, the track of the stream delivered does not stay running.
C21_LateStreamNotLeftRunning ==
    [][\A x \in DOMAIN trackStops' \ DOMAIN trackStops :
           ~mounted => trackStops'[x] >= 1]_vars

----------------------------------------------------------------------------
(* The photo strip of App: captures and the settling of their analysis
   calls *)

NextStrip ==
    \/ TakePhotoWithin(MaxCaptures)
    \/ \E c \in calls : \E outcome \in AppOutcomes(c.kind) : AnalysisSettles(c, outcome)

SpecStrip == InitBridge /\ [][NextStrip]_vars

\* C22: the photo strip is bounded and newest-first: it holds at most 5
\* entries, namely the most recent captures in reverse order of capture; a
\* capture is at the head of the strip from the step of its takePhoto action,
\* and the settling of an analysis call, whatever its outcome, leaves the
\* strip unchanged.
C22_StripBoundedNewestFirst ==
    /\ [](/\ Len(capturedPhotos) <= 5
          /\ Len(capturedPhotos) = IF issued < 5 THEN issued ELSE 5
          /\ \A i \in 1..Len(capturedPhotos) : capturedPhotos[i] = issued + 1 - i)
    /\ [][/\ issued' # issued => capturedPhotos'[1] = issued'
          /\ issued' = issued => capturedPhotos' = capturedPhotos]_vars

\* six captures were taken, the strip holds the last five, and the analysis
\* call of a capture still on the strip has failed
C22_Witness ==
    /\ issued = 6
    /\ capturedPhotos = <<6, 5, 4, 3, 2>>
    /\ lastSettled["scene"].outcome.threw
    /\ lastSettled["scene"].id \in 2..6

====
